---- MODULE Spec2Model ----
(***************************************************************************)
(* A model of scripts/build_mapbox_geojson.py: the conversion of the       *)
(* clinic CSV into a GeoJSON FeatureCollection.                            *)
(*                                                                         *)
(* Texts are sequences of one-character strings, so that strip(),          *)
(* replace() and float() are computed character by character.  Python      *)
(* values are tagged records: None, str, float and int.  A float is held   *)
(* exactly, as an integer number of 1/Scale units.                         *)
(***************************************************************************)
EXTENDS Integers, Sequences, FiniteSets, TLC

VARIABLES
    \* the working directory and the input file
    exists,       \* which of INPUT_CANDIDATES exist (indices into the list)
    fieldnames,   \* reader.fieldnames: NoFieldnames (empty file) or the header cells
    lines,        \* the records csv.reader yields after the header; <<>> is a blank line
    outFile,      \* the content of OUTPUT_FILE on disk
    \* main()'s locals and position
    pc, in_file, lat_key, lon_key, pos, i, features, skipped,
    stdout,       \* the lines printed so far
    outOpens,     \* how many times OUTPUT_FILE was opened for writing
    exit,         \* the process's exit status, NotExited while it runs
    \* one call of a helper function on its own
    fn, arg_key, arg_val, arg_names, arg_cells, ret

mainVars == <<pc, in_file, lat_key, lon_key, pos, i, features, skipped,
              stdout, outOpens, exit>>
envVars  == <<exists, fieldnames, lines>>
fnVars   == <<fn, arg_key, arg_val, arg_names, arg_cells, ret>>
vars     == <<exists, fieldnames, lines, outFile, pc, in_file, lat_key, lon_key,
              pos, i, features, skipped, stdout, outOpens, exit,
              fn, arg_key, arg_val, arg_names, arg_cells, ret>>

----------------------------------------------------------------------------
(* Bounds of the model *)

\* longest text given to the coercion functions (besides the named examples)
MaxLen == 4
\* most columns of a header given to pick_header
MaxCols == 3
\* most event / expedition columns of a row given to the feature builder
MaxIdCols == 2
\* most records (blank lines included) after the header of the input file
MaxLines == 3

----------------------------------------------------------------------------
(* Python values *)

NoneV     == [t |-> "None"]
StrV(s)   == [t |-> "str", s |-> s]
NameV(n)  == [t |-> "name", n |-> n]
FloatV(x) == [t |-> "float", v |-> x]
IntV(n)   == [t |-> "int", v |-> n]

\* Python's None where a column name is expected (no column bears this name)
NoKey == "<None>"

Range(s) == {s[k] : k \in DOMAIN s}

RECURSIVE Pow10(_)
Pow10(n) == IF n = 0 THEN 1 ELSE 10 * Pow10(n - 1)

\* a float is a whole number of 1/Scale: a literal of the model has fewer than
\* MaxLen digits after its point, and its value times Scale fits TLC's integers
Scale == Pow10(MaxLen - 1)

----------------------------------------------------------------------------
(* str methods *)

IsSpace(c) == c \in {" ", "\t"}

RECURSIVE LStrip(_)
LStrip(s) == IF s # <<>> /\ IsSpace(Head(s)) THEN LStrip(Tail(s)) ELSE s

RECURSIVE RStrip(_)
RStrip(s) ==
    IF s # <<>> /\ IsSpace(s[Len(s)]) THEN RStrip(SubSeq(s, 1, Len(s) - 1)) ELSE s

\* str.strip()
Strip(s) == RStrip(LStrip(s))

\* str.replace(c, "")
RECURSIVE Remove(_, _)
Remove(s, c) ==
    IF s = <<>> THEN <<>>
    ELSE IF Head(s) = c THEN Remove(Tail(s), c)
    ELSE <<Head(s)>> \o Remove(Tail(s), c)

----------------------------------------------------------------------------
(* float(s) on decimal literals *)

Digits == <<"0", "1", "2", "3", "4", "5", "6", "7", "8", "9">>

IsDigit(c) == c \in Range(Digits)

DigitVal(c) == (CHOOSE k \in DOMAIN Digits : Digits[k] = c) - 1

RECURSIVE DigitsVal(_)
DigitsVal(s) ==
    IF s = <<>> THEN 0 ELSE 10 * DigitsVal(SubSeq(s, 1, Len(s) - 1)) + DigitVal(s[Len(s)])

\* the place of the first "." of s, or Len(s) + 1
RECURSIVE DotAt(_)
DotAt(s) == IF s = <<>> \/ Head(s) = "." THEN 1 ELSE 1 + DotAt(Tail(s))

\* an unsigned decimal literal: digits with at most one ".", and at least one digit
IsDecimal(s) ==
    LET d == DotAt(s)
        whole == SubSeq(s, 1, d - 1)
        frac  == SubSeq(s, d + 1, Len(s))
    IN  /\ \A k \in DOMAIN whole : IsDigit(whole[k])
        /\ \A k \in DOMAIN frac : IsDigit(frac[k])
        /\ Len(whole) + Len(frac) > 0

\* the value of an unsigned decimal literal, in 1/Scale
DecimalVal(s) ==
    LET d == DotAt(s)
        whole == SubSeq(s, 1, d - 1)
        frac  == SubSeq(s, d + 1, Len(s))
    IN  DigitsVal(whole) * Scale + (DigitsVal(frac) * Scale) \div Pow10(Len(frac))

\* float(s): surrounding whitespace is ignored, then an optional sign and a
\* decimal literal; anything else raises ValueError, modelled as NoneV
ParseFloat(s) ==
    LET t == Strip(s)
        signed == t # <<>> /\ Head(t) \in {"-", "+"}
        body == IF signed THEN Tail(t) ELSE t
    IN  IF ~IsDecimal(body) THEN NoneV
        ELSE IF signed /\ Head(t) = "-" THEN FloatV(0 - DecimalVal(body))
        ELSE FloatV(DecimalVal(body))

\* a slip: the floor of x, which differs below zero
IntOfFloat_Floor(x) == x \div Scale

\* int(x) of a float x: the whole part, toward zero
IntOfFloat(x) == IF x >= 0 THEN x \div Scale ELSE 0 - ((0 - x) \div Scale)

----------------------------------------------------------------------------
(* The coercion functions *)

to_float(val) ==
    IF val = NoneV THEN NoneV
    ELSE LET text == Strip(val.s)
         IN  IF text = <<>> THEN NoneV
             ELSE ParseFloat(Remove(Remove(text, ","), "$"))

to_int(val) ==
    IF val = NoneV THEN NoneV
    ELSE LET text == Strip(val.s)
         IN  IF text = <<>> THEN NoneV
             ELSE LET parsed == ParseFloat(Remove(Remove(text, ","), "$"))
                  IN  IF parsed = NoneV THEN NoneV ELSE IntV(IntOfFloat(parsed.v))

numeric_int_cols ==
    {"Event #", "Expedition #", "Year", "ZipCode",
     "Total Volunteers", "Total Patients",
     "Animals Served", "Extractions", "Fillings", "Cleanings",
     "Glasses", "Eye Exams", "Medical Exams", "Women's Health"}

\* a slip: "f if f else s", which sends a zero back as text
to_number_if_possible_Truthy(key, val) ==
    IF val = NoneV THEN NoneV
    ELSE LET trimmed == Strip(val.s)
         IN  IF trimmed = <<>> THEN NoneV
             ELSE IF key = "Total Value of Care"
                  THEN LET asFloat == to_float(StrV(trimmed))
                       IN  IF asFloat # NoneV /\ asFloat.v # 0 THEN asFloat ELSE StrV(trimmed)
             ELSE IF key \in numeric_int_cols
                  THEN LET asInt == to_int(StrV(trimmed))
                       IN  IF asInt # NoneV /\ asInt.v # 0 THEN asInt ELSE StrV(trimmed)
             ELSE StrV(trimmed)

to_number_if_possible(key, val) ==
    IF val = NoneV THEN NoneV
    ELSE LET trimmed == Strip(val.s)
         IN  IF trimmed = <<>> THEN NoneV
             ELSE IF key = "Total Value of Care"
                  THEN LET asFloat == to_float(StrV(trimmed))
                       IN  IF asFloat # NoneV THEN asFloat ELSE StrV(trimmed)
             ELSE IF key \in numeric_int_cols
                  THEN LET asInt == to_int(StrV(trimmed))
                       IN  IF asInt # NoneV THEN asInt ELSE StrV(trimmed)
             ELSE StrV(trimmed)

----------------------------------------------------------------------------
(* Locating the input and resolving the header *)

INPUT_CANDIDATES ==
    <<"master clinic mapbox file.csv", "master clinic mapbox file.cvs">>

OUTPUT_FILE == "MapBox Dataset.geojson"

HEADER_ALIASES ==
    [latitude  |-> <<"Latitude", "Lat", "LAT", "lat", "latitude">>,
     longitude |-> <<"Longitude", "Longitutde", "Long", "Lng", "LON", "lon", "lng",
                     "longitude">>]

\* the first candidate that exists, or NoKey; present is the set of the
\* candidates' indices whose file exists
find_input_file(present) ==
    IF \E k \in DOMAIN INPUT_CANDIDATES : k \in present
    THEN INPUT_CANDIDATES[CHOOSE k \in DOMAIN INPUT_CANDIDATES :
                              k \in present /\ \A j \in 1..(k - 1) : j \notin present]
    ELSE NoKey

\* a slip: the first column that is an alias, in the order of the file
RECURSIVE pick_header_ColumnOrder(_, _)
pick_header_ColumnOrder(row_fieldnames, aliases) ==
    IF row_fieldnames = <<>> THEN NoKey
    ELSE IF Head(row_fieldnames) \in Range(aliases) THEN Head(row_fieldnames)
    ELSE pick_header_ColumnOrder(Tail(row_fieldnames), aliases)

\* for a in aliases: if a in row_fieldnames: return a
RECURSIVE pick_header(_, _)
pick_header(row_fieldnames, aliases) ==
    IF aliases = <<>> THEN NoKey
    ELSE IF Head(aliases) \in Range(row_fieldnames) THEN Head(aliases)
    ELSE pick_header(row_fieldnames, Tail(aliases))

----------------------------------------------------------------------------
(* csv.DictReader *)

\* reader.fieldnames of an empty file
NoFieldnames == <<NoKey>>

\* the row DictReader builds: dict(zip(fieldnames, cells)), the cells a short
\* record lacks being None (restval).  Records are no longer than the header.
RowDict(names, cells) ==
    [k \in Range(names) |->
        LET at == CHOOSE n \in DOMAIN names :
                      names[n] = k /\ \A m \in (n + 1)..Len(names) : names[m] # k
        IN  IF at <= Len(cells) THEN StrV(cells[at]) ELSE NoneV]

\* dict.get(k)
Get(row, k) == IF k \in DOMAIN row THEN row[k] ELSE NoneV

\* d[k] = v
Put(d, k, v) == [x \in DOMAIN d \cup {k} |-> IF x = k THEN v ELSE d[x]]

\* the truth value of None or a str
Truthy(val) == val # NoneV /\ val.s # <<>>

\* a or b
Or(a, b) == IF Truthy(a) THEN a ELSE b

\* the place of the next record that is not a blank line after place p, or 0:
\* DictReader.__next__ skips the rows that are []
NextRecord(p) ==
    IF \E n \in (p + 1)..Len(lines) : lines[n] # <<>>
    THEN CHOOSE n \in (p + 1)..Len(lines) :
             lines[n] # <<>> /\ \A m \in (p + 1)..(n - 1) : lines[m] = <<>>
    ELSE 0

----------------------------------------------------------------------------
(* The body of main's row loop *)

\* a slip: a row is skipped only when both coordinates fail
SkipsRow_BothFail(row, latk, lonk) ==
    to_float(Get(row, latk)) = NoneV /\ to_float(Get(row, lonk)) = NoneV

\* lat is None or lon is None
SkipsRow(row, latk, lonk) ==
    to_float(Get(row, latk)) = NoneV \/ to_float(Get(row, lonk)) = NoneV

\* print(f"SKIPPED row {i}: lat=... lon=... event=... city=...")
SkippedLine(row, latk, lonk, n) ==
    [kind |-> "SKIPPED", row |-> n, lat |-> Get(row, latk), lon |-> Get(row, lonk),
     event |-> Get(row, "Event #"), city |-> Get(row, "City")]

\* props[k] = to_number_if_possible(k, v) for every column but the coordinates
BaseProps(row, latk, lonk) ==
    [k \in DOMAIN row \ {latk, lonk} |-> to_number_if_possible(k, row[k])]

EventId(row) == Or(Or(Get(row, "Event #"), Get(row, "Event#")), Get(row, "Event"))

ExpeditionId(row) ==
    Or(Or(Get(row, "Expedition #"), Get(row, "Expedition#")), Get(row, "Expedition"))

\* props["_row"] = i, then the two ids when they are truthy
WithRow(props, n) == Put(props, "_row", IntV(n))

WithEventId(props, row) ==
    IF Truthy(EventId(row))
    THEN Put(props, "_event_id", StrV(Strip(EventId(row).s)))
    ELSE props

WithExpeditionId(props, row) ==
    IF Truthy(ExpeditionId(row))
    THEN Put(props, "_expedition_id", StrV(Strip(ExpeditionId(row).s)))
    ELSE props

Props(row, latk, lonk, n) ==
    WithExpeditionId(WithEventId(WithRow(BaseProps(row, latk, lonk), n), row), row)

\* a slip: the latitude first
Coordinates_LatFirst(row, latk, lonk) ==
    <<to_float(Get(row, latk)), to_float(Get(row, lonk))>>

\* "coordinates": [lon, lat]
Coordinates(row, latk, lonk) == <<to_float(Get(row, lonk)), to_float(Get(row, latk))>>

Feature(row, latk, lonk, n) ==
    [type |-> "Feature",
     geometry |-> [type |-> "Point", coordinates |-> Coordinates(row, latk, lonk)],
     properties |-> Props(row, latk, lonk, n)]

----------------------------------------------------------------------------
(* The files and the printed lines *)

\* OUTPUT_FILE on disk: not there, left by an earlier run, cut short, or whole
Absent == [state |-> "absent"]
Stale == [state |-> "stale"]
Partial(fs) == [state |-> "partial", features |-> fs]
Document(fs) == [state |-> "written", type |-> "FeatureCollection", features |-> fs]

NotFoundLines ==
    <<[kind |-> "ERROR", text |-> "Could not find input CSV. Expected one of:"]>>
    \o [k \in DOMAIN INPUT_CANDIDATES |-> [kind |-> "CANDIDATE", name |-> INPUT_CANDIDATES[k]]]

NoHeadersLines == <<[kind |-> "ERROR", text |-> "CSV appears to have no headers."]>>

NoColumnsLines(names) ==
    <<[kind |-> "ERROR", text |-> "Could not find Latitude/Longitude columns."],
      [kind |-> "HEADERS", names |-> names]>>

ReportLines(fs, n) ==
    <<[kind |-> "OK", file |-> OUTPUT_FILE],
      [kind |-> "SUMMARY", features |-> Len(fs), skipped |-> n]>>

----------------------------------------------------------------------------
(* The inputs of the model *)

Text1 == <<"1">>
Text7 == <<"7">>
TextNeg == <<"-", "2", ".", "5">>
TextMoney == <<"$", "7">>
TextTen == <<" ", "1", ",", "0">>
TextBlank == <<" ">>
TextWord == <<"x">>

\* the headers of the input files: two with both coordinate columns, one
\* lacking the latitude, one lacking the longitude, and a blank first line
MainHeaders ==
    {<<"Lat", "Longitude", "_row">>,
     <<"Longitude", "Event #", "Latitude">>,
     <<"City", "Longitude", "Event #">>,
     <<"Latitude", "City", "Event #">>,
     <<>>}

\* the records of the input files
MainRows ==
    {<<Text1, TextNeg, Text7>>,
     <<<<>>, Text7, Text1>>,
     <<Text1, TextWord, Text7>>,
     <<Text1>>,
     <<TextMoney, TextTen, TextBlank>>}

SeqsUpTo(S, n) == UNION {[1..m -> S] : m \in 0..n}

\* sequences of at most n different members of S
InjSeqsUpTo(S, n) ==
    {q \in SeqsUpTo(S, n) : \A a, b \in DOMAIN q : a # b => q[a] # q[b]}

MainFiles == SeqsUpTo(MainRows \cup {<<>>}, MaxLines)

----------------------------------------------------------------------------
(* main() *)

Pending == [t |-> "pending"]

FnIdle ==
    /\ fn = "main" /\ arg_key = NoKey /\ arg_val = NoneV
    /\ arg_names = <<>> /\ arg_cells = <<>> /\ ret = Pending

Init ==
    /\ exists \in SUBSET DOMAIN INPUT_CANDIDATES
    /\ \/ exists = {} /\ fieldnames = NoFieldnames /\ lines = <<>>
       \/ exists # {} /\ fieldnames = NoFieldnames /\ lines = <<>>
       \/ exists # {} /\ fieldnames \in MainHeaders /\ lines \in MainFiles
    /\ outFile \in {Absent, Stale}
    /\ pc = "start" /\ in_file = NoKey /\ lat_key = NoKey /\ lon_key = NoKey
    /\ pos = 0 /\ i = 0 /\ features = <<>> /\ skipped = 0
    /\ stdout = <<>> /\ outOpens = 0 /\ exit = NoneV
    /\ FnIdle

\* sys.exit(status), or the end of the script
Exit(status) == pc' = "exited" /\ exit' = IntV(status)

\* in_file = find_input_file(); if not in_file: ... sys.exit(1)
FindInput ==
    /\ pc = "start"
    /\ in_file' = find_input_file(exists)
    /\ IF find_input_file(exists) = NoKey
       THEN stdout' = stdout \o NotFoundLines /\ Exit(1)
       ELSE pc' = "open" /\ UNCHANGED <<stdout, exit>>
    /\ UNCHANGED <<envVars, outFile, lat_key, lon_key, pos, i, features, skipped,
                   outOpens, fnVars>>

\* reader = csv.DictReader(f); if not reader.fieldnames: ... sys.exit(1)
ReadHeader ==
    /\ pc = "open"
    /\ IF fieldnames = NoFieldnames \/ fieldnames = <<>>
       THEN stdout' = stdout \o NoHeadersLines /\ Exit(1)
       ELSE pc' = "resolve" /\ UNCHANGED <<stdout, exit>>
    /\ UNCHANGED <<envVars, outFile, in_file, lat_key, lon_key, pos, i, features,
                   skipped, outOpens, fnVars>>

\* a slip: the run stops only when both columns are missing
ResolveHeader_BothMissing ==
    /\ pc = "resolve"
    /\ lat_key' = pick_header(fieldnames, HEADER_ALIASES.latitude)
    /\ lon_key' = pick_header(fieldnames, HEADER_ALIASES.longitude)
    /\ IF lat_key' = NoKey /\ lon_key' = NoKey
       THEN /\ stdout' = stdout \o NoColumnsLines(fieldnames) /\ Exit(1)
            /\ UNCHANGED <<features, skipped>>
       ELSE /\ features' = <<>> /\ skipped' = 0
            /\ pc' = "rows" /\ UNCHANGED <<stdout, exit>>
    /\ UNCHANGED <<envVars, outFile, in_file, pos, i, outOpens, fnVars>>

\* lat_key, lon_key = pick_header(...); if not lat_key or not lon_key: ... sys.exit(1)
ResolveHeader ==
    /\ pc = "resolve"
    /\ lat_key' = pick_header(fieldnames, HEADER_ALIASES.latitude)
    /\ lon_key' = pick_header(fieldnames, HEADER_ALIASES.longitude)
    /\ IF lat_key' = NoKey \/ lon_key' = NoKey
       THEN /\ stdout' = stdout \o NoColumnsLines(fieldnames) /\ Exit(1)
            /\ UNCHANGED <<features, skipped>>
       ELSE /\ features' = <<>> /\ skipped' = 0
            /\ pc' = "rows" /\ UNCHANGED <<stdout, exit>>
    /\ UNCHANGED <<envVars, outFile, in_file, pos, i, outOpens, fnVars>>

\* a slip: a row whose coordinates do not parse ends the run
SkipRow_Aborts ==
    /\ pc = "rows" /\ NextRecord(pos) # 0
    /\ LET rec == RowDict(fieldnames, lines[NextRecord(pos)])
       IN  /\ SkipsRow(rec, lat_key, lon_key)
           /\ skipped' = skipped + 1
           /\ stdout' = Append(stdout, SkippedLine(rec, lat_key, lon_key, i + 1))
    /\ pos' = NextRecord(pos) /\ i' = i + 1
    /\ Exit(1)
    /\ UNCHANGED <<envVars, outFile, in_file, lat_key, lon_key, features,
                   outOpens, fnVars>>

\* one turn of the loop over a row whose coordinates do not parse
SkipRow ==
    /\ pc = "rows" /\ NextRecord(pos) # 0
    /\ LET rec == RowDict(fieldnames, lines[NextRecord(pos)])
       IN  /\ SkipsRow(rec, lat_key, lon_key)
           /\ skipped' = skipped + 1
           /\ stdout' = Append(stdout, SkippedLine(rec, lat_key, lon_key, i + 1))
    /\ pos' = NextRecord(pos) /\ i' = i + 1
    /\ UNCHANGED <<envVars, outFile, pc, in_file, lat_key, lon_key, features,
                   outOpens, exit, fnVars>>

\* a slip: the new Feature is put in front of the list
AddFeature_InFront ==
    /\ pc = "rows" /\ NextRecord(pos) # 0
    /\ LET rec == RowDict(fieldnames, lines[NextRecord(pos)])
       IN  /\ ~SkipsRow(rec, lat_key, lon_key)
           /\ features' = <<Feature(rec, lat_key, lon_key, i + 1)>> \o features
    /\ pos' = NextRecord(pos) /\ i' = i + 1
    /\ UNCHANGED <<envVars, outFile, pc, in_file, lat_key, lon_key, skipped,
                   stdout, outOpens, exit, fnVars>>

\* one turn of the loop over a row whose coordinates parse
AddFeature ==
    /\ pc = "rows" /\ NextRecord(pos) # 0
    /\ LET rec == RowDict(fieldnames, lines[NextRecord(pos)])
       IN  /\ ~SkipsRow(rec, lat_key, lon_key)
           /\ features' = Append(features, Feature(rec, lat_key, lon_key, i + 1))
    /\ pos' = NextRecord(pos) /\ i' = i + 1
    /\ UNCHANGED <<envVars, outFile, pc, in_file, lat_key, lon_key, skipped,
                   stdout, outOpens, exit, fnVars>>

\* the reader is exhausted: the loop and the with block end
EndOfRows ==
    /\ pc = "rows" /\ NextRecord(pos) = 0
    /\ pos' = Len(lines) /\ pc' = "write"
    /\ UNCHANGED <<envVars, outFile, in_file, lat_key, lon_key, i, features,
                   skipped, stdout, outOpens, exit, fnVars>>

\* open(OUTPUT_FILE, "w") truncates the file
OpenOutput ==
    /\ pc = "write"
    /\ outFile' = Partial(<<>>) /\ outOpens' = outOpens + 1 /\ pc' = "dump"
    /\ UNCHANGED <<envVars, in_file, lat_key, lon_key, pos, i, features, skipped,
                   stdout, exit, fnVars>>

\* open(OUTPUT_FILE, "w") raises OSError: the traceback ends the run
OpenOutputFails ==
    /\ pc = "write"
    /\ Exit(1)
    /\ UNCHANGED <<envVars, outFile, in_file, lat_key, lon_key, pos, i, features,
                   skipped, stdout, outOpens, fnVars>>

\* json.dump(geojson, out) and the close of the file
DumpDocument ==
    /\ pc = "dump"
    /\ outFile' = Document(features) /\ pc' = "report"
    /\ UNCHANGED <<envVars, in_file, lat_key, lon_key, pos, i, features, skipped,
                   stdout, outOpens, exit, fnVars>>

\* a write of json.dump raises OSError after some of the text reached the disk
DumpFails ==
    /\ pc = "dump"
    /\ \E n \in 0..Len(features) : outFile' = Partial(SubSeq(features, 1, n))
    /\ Exit(1)
    /\ UNCHANGED <<envVars, in_file, lat_key, lon_key, pos, i, features, skipped,
                   stdout, outOpens, fnVars>>

\* the two closing prints, and the end of the script
Report ==
    /\ pc = "report"
    /\ stdout' = stdout \o ReportLines(features, skipped)
    /\ Exit(0)
    /\ UNCHANGED <<envVars, outFile, in_file, lat_key, lon_key, pos, i, features,
                   skipped, outOpens, fnVars>>

Next ==
    \/ FindInput \/ ReadHeader \/ ResolveHeader
    \/ SkipRow \/ AddFeature \/ EndOfRows
    \/ OpenOutput \/ OpenOutputFails \/ DumpDocument \/ DumpFails
    \/ Report

Spec == Init /\ [][Next]_vars

\* the script has ended, or its next statement can run.  In the loop with a
\* record left that statement is a turn of the loop, SkipRow or AddFeature,
\* which split on SkipsRow.  The run passes its places in one direction only
\* and the loop consumes a record each turn, so a run that always runs on ends.
RunsOn ==
    \/ pc = "exited"
    \/ pc = "rows" /\ NextRecord(pos) # 0
    \/ ENABLED (FindInput \/ ReadHeader \/ ResolveHeader \/ EndOfRows
                   \/ OpenOutput \/ OpenOutputFails \/ DumpDocument \/ DumpFails
                   \/ Report)

----------------------------------------------------------------------------
(* The helper functions, each called once on an input of its own *)

CoerceAlphabet == {" ", ",", "$", "-", ".", "0", "7", "x"}

\* the values the documentation names
Example12p7 == <<"1", "2", ".", "7">>
ExampleNeg12p7 == <<"-", "1", "2", ".", "7">>
Example1234 == <<"1", ",", "2", "3", "4">>
ExampleMoney == <<"$", "1", ",", "2", "3", "4", ".", "5", "0">>

CoerceTexts ==
    SeqsUpTo(CoerceAlphabet, MaxLen)
        \cup {Example12p7, ExampleNeg12p7, Example1234, ExampleMoney}

CoerceVals == {NoneV} \cup {StrV(s) : s \in CoerceTexts}

\* a float column, two int columns and a text column
CoerceKeys == {"Total Value of Care", "Total Patients", "Year", "City"}

HeaderNames == {"Latitude", "Lat", "lat", "Longitude", "Lng", "lng", "City"}

\* the columns a row may have besides its coordinates
IdColumns ==
    {"Event #", "Event#", "Event", "Expedition #", "Expedition#", "Expedition", "_row"}

IdTexts == {<<>>, TextBlank, Text7, <<" ", "8", " ">>}

FnRowKeys == <<"Lat", "Lng">>
FnRowCoordinates == <<Text1, TextNeg>>

MainIdle ==
    /\ exists = {} /\ fieldnames = NoFieldnames /\ lines = <<>> /\ outFile = Absent
    /\ pc = "idle" /\ in_file = NoKey /\ lat_key = NoKey /\ lon_key = NoKey
    /\ pos = 0 /\ i = 0 /\ features = <<>> /\ skipped = 0
    /\ stdout = <<>> /\ outOpens = 0 /\ exit = NoneV

FnInit ==
    /\ MainIdle
    /\ ret = Pending
    /\ \/ /\ fn \in {"to_float", "to_int"}
          /\ arg_val \in CoerceVals
          /\ arg_key = NoKey /\ arg_names = <<>> /\ arg_cells = <<>>
       \/ /\ fn = "to_number_if_possible"
          /\ arg_key \in CoerceKeys /\ arg_val \in CoerceVals
          /\ arg_names = <<>> /\ arg_cells = <<>>
       \/ /\ fn = "pick_header"
          /\ arg_key \in DOMAIN HEADER_ALIASES
          /\ arg_names \in InjSeqsUpTo(HeaderNames, MaxCols)
          /\ arg_val = NoneV /\ arg_cells = <<>>
       \/ /\ fn = "feature"
          /\ \E cols \in InjSeqsUpTo(IdColumns, MaxIdCols) :
                /\ arg_names = FnRowKeys \o cols
                /\ \E cells \in SeqsUpTo(IdTexts, Len(cols)) :
                      arg_cells = FnRowCoordinates \o cells
          /\ arg_key = NoKey /\ arg_val = NoneV

Returns(v) ==
    /\ ret = Pending /\ ret' = v
    /\ UNCHANGED <<envVars, outFile, mainVars, fn, arg_key, arg_val, arg_names, arg_cells>>

CallToFloat == fn = "to_float" /\ Returns(to_float(arg_val))

CallToInt == fn = "to_int" /\ Returns(to_int(arg_val))

CallToNumber ==
    fn = "to_number_if_possible" /\ Returns(to_number_if_possible(arg_key, arg_val))

CallPickHeader ==
    fn = "pick_header" /\ Returns(NameV(pick_header(arg_names, HEADER_ALIASES[arg_key])))

\* the body of the loop on a row whose coordinates parse, as its first row
CallFeature ==
    /\ fn = "feature"
    /\ Returns(Feature(RowDict(arg_names, arg_cells), FnRowKeys[1], FnRowKeys[2], 1))

FnNext == CallToFloat \/ CallToInt \/ CallToNumber \/ CallPickHeader \/ CallFeature

FnSpec == FnInit /\ [][FnNext]_vars

----------------------------------------------------------------------------
(* What the claims speak of *)

\* the record at place n of the input, as the row the reader builds
RowAt(n) == RowDict(fieldnames, lines[n])

\* how many records that are not blank lines the input holds up to place p
RecordsUpTo(p) == Cardinality({n \in 1..p : lines[n] # <<>>})

\* the cell is there, is not empty and reads as a number
IsNumber(cell) == to_float(cell) # NoneV

BothParse(row) == IsNumber(Get(row, lat_key)) /\ IsNumber(Get(row, lon_key))

\* the step consumes one row of the loop
RowStep == pc = "rows" /\ i' # i

RowOf(f) == f.properties["_row"]

----------------------------------------------------------------------------
(* C1 *)

\* C1: every row the loop processes either has both coordinates parse, and then
\* exactly one Feature is appended and the skip counter stays, or has a
\* coordinate that is missing, empty or not a number, and then no Feature is
\* appended, the skip counter grows by one and one SKIPPED line naming the row's
\* ordinal is printed.  After n rows, features + skipped = n, and every Feature
\* has two numbers as coordinates.
C1_EachRowPlacedOrSkipped ==
    /\ [][RowStep =>
            LET row == RowAt(pos')
            IN  /\ i' = i + 1
                /\ \/ /\ BothParse(row)
                      /\ Len(features') = Len(features) + 1
                      /\ SubSeq(features', 1, Len(features)) = features
                      /\ skipped' = skipped
                      /\ stdout' = stdout
                   \/ /\ ~BothParse(row)
                      /\ features' = features
                      /\ skipped' = skipped + 1
                      /\ Len(stdout') = Len(stdout) + 1
                      /\ SubSeq(stdout', 1, Len(stdout)) = stdout
                      /\ stdout'[Len(stdout')].kind = "SKIPPED"
                      /\ stdout'[Len(stdout')].row = i']_vars
    /\ [](/\ Len(features) + skipped = i
          /\ \A n \in DOMAIN features :
                /\ features[n].geometry.coordinates[1].t = "float"
                /\ features[n].geometry.coordinates[2].t = "float")

C1_Witness == Len(features) >= 1 /\ skipped >= 1 /\ i = MaxLines

----------------------------------------------------------------------------
(* C2 *)

\* the last Feature appended by the step has [longitude, latitude] as its
\* coordinates and n as its _row
AppendedFeatureIs(n) ==
    LET row == RowAt(pos')
        f == features'[Len(features')]
    IN  /\ f.geometry.coordinates =
               <<to_float(Get(row, lon_key)), to_float(Get(row, lat_key))>>
        /\ RowOf(f) = IntV(n)

\* C2 as stated: the Feature of a row with parsable coordinates has the
\* coordinates [longitude, latitude] and, as _row, the 1-based ordinal of the
\* row in the input, blank lines between the records included.
C2_RowIsInputOrdinal ==
    [][(RowStep /\ Len(features') > Len(features)) => AppendedFeatureIs(pos')]_vars

\* C2 as amended: the Feature of a row with parsable coordinates has the
\* coordinates [longitude, latitude] and, as _row, the 1-based ordinal of the
\* row among the records the reader yields, which leaves blank lines out; a
\* column named _row does not change it.
C2_RowIsRecordOrdinal ==
    [][(RowStep /\ Len(features') > Len(features)) =>
            AppendedFeatureIs(RecordsUpTo(pos'))]_vars

\* a Feature built after a blank line, from a file with a column named _row
C2_Witness ==
    /\ Len(features) >= 1
    /\ "_row" \in Range(fieldnames)
    /\ \E n \in 1..pos : lines[n] = <<>>
    /\ RowOf(features[Len(features)]) = IntV(RecordsUpTo(pos))
    /\ RecordsUpTo(pos) < pos
    /\ NextRecord(pos) = 0 /\ lines[pos] # <<>>

----------------------------------------------------------------------------
(* C3 *)

\* C3: the _row values of the features are strictly increasing at every point
\* of the run, features are only ever appended, the output file is opened at
\* most once and only after the last row was consumed, the document written
\* holds the features in that order, and a run that succeeds wrote it once.
C3_FeaturesInRowOrder ==
    /\ [](/\ \A a, b \in DOMAIN features : a < b => RowOf(features[a]).v < RowOf(features[b]).v
          /\ outOpens <= 1
          /\ (outOpens = 1 => pos = Len(lines) /\ NextRecord(pos) = 0 /\ pc \notin {"rows"})
          /\ (outFile.state = "written" => outFile = Document(features))
          /\ (pc = "exited" /\ exit = IntV(0) => outOpens = 1 /\ outFile = Document(features)))
    /\ [][\/ features' = features
          \/ /\ Len(features') = Len(features) + 1
             /\ SubSeq(features', 1, Len(features)) = features]_vars
    /\ [][outFile.state = "written" => outFile' = outFile]_vars

C3_Witness ==
    /\ pc = "exited" /\ outFile.state = "written"
    /\ Len(outFile.features) >= 2 /\ skipped >= 1

----------------------------------------------------------------------------
(* C4 *)

\* C4: pick_header returns the first spelling of the alias list, in declared
\* order, that is among the column names, and None exactly when no alias is
\* among them, whatever the order of the columns; "Lat" resolves the latitude
\* when "Latitude" is absent.
C4_PickHeaderFirstAlias ==
    (fn = "pick_header" /\ ret # Pending) =>
        LET aliases == HEADER_ALIASES[arg_key]
            present == {k \in DOMAIN aliases : aliases[k] \in Range(arg_names)}
        IN  /\ (ret = NameV(NoKey)) <=> (present = {})
            /\ present # {} =>
                  \E k \in present :
                      ret = NameV(aliases[k]) /\ \A j \in present : k <= j
            /\ (/\ arg_key = "latitude"
                /\ "Lat" \in Range(arg_names)
                /\ "Latitude" \notin Range(arg_names)) => ret = NameV("Lat")

\* both spellings are columns, the later alias first in the file
C4_Witness ==
    /\ fn = "pick_header" /\ arg_key = "latitude"
    /\ Len(arg_names) >= 2 /\ arg_names[1] = "Lat" /\ arg_names[2] = "Latitude"
    /\ ret = NameV("Latitude")

----------------------------------------------------------------------------
(* C5 *)

NoAlias(aliases) == \A k \in DOMAIN aliases : aliases[k] \notin Range(fieldnames)

NoInputFile == exists = {}

NoHeaderRow == exists # {} /\ (fieldnames = NoFieldnames \/ fieldnames = <<>>)

NoCoordinateColumn ==
    /\ exists # {} /\ ~NoHeaderRow
    /\ NoAlias(HEADER_ALIASES.latitude) \/ NoAlias(HEADER_ALIASES.longitude)

SetupFails == NoInputFile \/ NoHeaderRow \/ NoCoordinateColumn

\* C5: when no candidate input exists, the input has no header row, or no
\* latitude or no longitude alias is in the header, the run ends with exit
\* status 1, the output file is never opened and keeps what it held, and no
\* row is processed.
C5_SetupFailureBeforeOutput ==
    /\ [](SetupFails =>
            /\ outOpens = 0 /\ i = 0 /\ pos = 0 /\ features = <<>> /\ skipped = 0
            /\ pc \in {"start", "open", "resolve", "exited"}
            /\ (pc = "exited" => exit = IntV(1)))
    /\ [](SetupFails => RunsOn)
    /\ [][SetupFails => outFile' = outFile]_vars

\* a header without a latitude column, rows in the file, an earlier output
C5_Witness ==
    /\ pc = "exited" /\ exit = IntV(1)
    /\ lat_key = NoKey /\ lon_key # NoKey
    /\ Len(lines) = MaxLines /\ lines[1] # <<>>
    /\ outFile = Stale /\ pos = 0

----------------------------------------------------------------------------
(* C6 *)

\* C6: a run whose write of the output document fails, on open or part-way,
\* ends with a non-zero exit status, never prints the success summary and
\* does not leave the output file truncated or partial.
C6_WrittenFullyOrNotAtAll ==
    [][(pc \in {"write", "dump"} /\ pc' = "exited") =>
            /\ exit' # IntV(0)
            /\ \A n \in DOMAIN stdout' : stdout'[n].kind # "OK"
            /\ outFile'.state # "partial"]_vars

----------------------------------------------------------------------------
(* C9 *)

Resolves == exists # {} /\ ~NoHeaderRow /\ ~NoCoordinateColumn

Records == {n \in DOMAIN lines : lines[n] # <<>>}

\* the records whose two coordinate cells read as numbers
Placeable ==
    {n \in Records :
        /\ IsNumber(Get(RowAt(n), pick_header(fieldnames, HEADER_ALIASES.latitude)))
        /\ IsNumber(Get(RowAt(n), pick_header(fieldnames, HEADER_ALIASES.longitude)))}

Succeeded ==
    /\ pc = "exited" /\ exit = IntV(0)
    /\ i = Cardinality(Records)
    /\ outFile = Document(features)
    /\ Len(features) = Cardinality(Placeable)
    /\ stdout # <<>>
    /\ stdout[Len(stdout)] =
           [kind |-> "SUMMARY", features |-> Cardinality(Placeable),
            skipped |-> Cardinality(Records \ Placeable)]

\* the write of the document failed, after every row was processed
WriteFailed ==
    /\ pc = "exited" /\ exit = IntV(1)
    /\ i = Cardinality(Records)
    /\ outFile.state # "written"

\* C9: a row that is skipped never ends the run.  For an input whose header
\* resolves both coordinate columns, every row is processed whatever the number
\* of skipped rows, and unless the write of the output file itself fails the
\* document is written, the summary reports the numbers of rows placed and
\* skipped, and the run ends with exit status 0.
C9_SkipsNeverAbort ==
    /\ [][pc = "rows" => (pc' \in {"rows", "write"} /\ exit' = exit)]_vars
    /\ [](/\ (pc \in {"write", "dump", "report"} =>
                /\ i = Cardinality(Records)
                /\ Len(features) = Cardinality(Placeable)
                /\ skipped = Cardinality(Records \ Placeable))
          /\ (pc = "exited" /\ exit = IntV(0) => Succeeded)
          /\ (Resolves => RunsOn)
          /\ (Resolves /\ pc = "exited" => Succeeded \/ WriteFailed))

\* every row of a full file was skipped, and the run succeeded
C9_Witness ==
    /\ Succeeded /\ features = <<>> /\ skipped = MaxLines

----------------------------------------------------------------------------
(* C7 *)

\* the cell is missing, or empty once trimmed
IsEmptyCell(val) == val = NoneV \/ Strip(val.s) = <<>>

\* r is what the dispatch rule gives for the cell val of column key
Dispatched(key, val, r) ==
    /\ (r = NoneV) <=> IsEmptyCell(val)
    /\ r # StrV(<<>>)
    /\ ~IsEmptyCell(val) =>
          LET text == StrV(Strip(val.s))
          IN  IF key = "Total Value of Care"
              THEN r = (IF to_float(text) = NoneV THEN text ELSE to_float(text))
              ELSE IF key \in numeric_int_cols
              THEN r = (IF to_int(text) = NoneV THEN text ELSE to_int(text))
              ELSE r = text

\* C7: to_number_if_possible yields None exactly for a cell that is missing or
\* empty once trimmed and never an empty string; for "Total Value of Care" the
\* float coercion of the trimmed text, for an integer-designated column its
\* integer coercion, the trimmed text itself when that coercion yields None,
\* and for every other column the trimmed text.  The properties of a Feature
\* hold this value for every column but the coordinates (and _row, which the
\* row ordinal replaces).
C7_DispatchRule ==
    /\ (fn = "to_number_if_possible" /\ ret # Pending) =>
            Dispatched(arg_key, arg_val, ret)
    /\ (fn = "feature" /\ ret # Pending) =>
            \A k \in Range(arg_names) \ (Range(FnRowKeys) \cup {"_row"}) :
                /\ k \in DOMAIN ret.properties
                /\ Dispatched(k, RowDict(arg_names, arg_cells)[k], ret.properties[k])

\* a zero in an integer column, and a count that does not parse kept as text
C7_Witness ==
    \/ /\ fn = "to_number_if_possible" /\ arg_key = "Total Patients"
       /\ arg_val = StrV(<<" ", "0", " ">>) /\ ret = IntV(0)
    \/ /\ fn = "to_number_if_possible" /\ arg_key = "Year"
       /\ arg_val = StrV(<<"7", "x", " ">>) /\ ret = StrV(<<"7", "x">>)

----------------------------------------------------------------------------
(* C8 *)

\* the text once trimmed and rid of its commas and dollar signs
Cleaned(val) == Remove(Remove(Strip(val.s), ","), "$")

\* the cell is missing, empty, or does not read as a number
Unparseable(val) == IsEmptyCell(val) \/ ParseFloat(Cleaned(val)) = NoneV

\* n is x (in 1/Scale) cut toward zero
IsTruncationOf(n, x) ==
    /\ x >= 0 => (n * Scale <= x /\ x < (n + 1) * Scale)
    /\ x <= 0 => (n * Scale >= x /\ x > (n - 1) * Scale)

\* C8: to_int trims the text, removes every comma and dollar sign, parses the
\* rest as a number and cuts it toward zero ("12.7" gives 12, "1,234" gives
\* 1234, "-12.7" gives -12), and yields None on a missing, empty or unparseable
\* input; to_float cleans the text the same way and keeps the fraction
\* ("$1,234.50" gives 1234.5).
C8_Coercion ==
    /\ (fn = "to_int" /\ ret # Pending) =>
          /\ IF Unparseable(arg_val) THEN ret = NoneV
             ELSE /\ ret.t = "int"
                  /\ IsTruncationOf(ret.v, ParseFloat(Cleaned(arg_val)).v)
          /\ arg_val = StrV(Example12p7) => ret = IntV(12)
          /\ arg_val = StrV(Example1234) => ret = IntV(1234)
          /\ arg_val = StrV(ExampleNeg12p7) => ret = IntV(0 - 12)
    /\ (fn = "to_float" /\ ret # Pending) =>
          /\ IF Unparseable(arg_val) THEN ret = NoneV
             ELSE ret = ParseFloat(Cleaned(arg_val))
          /\ arg_val = StrV(ExampleMoney) => ret = FloatV(12345 * (Scale \div 10))
          /\ arg_val = StrV(Example12p7) => ret = FloatV(127 * (Scale \div 10))

\* a negative fraction cut toward zero
C8_Witness ==
    /\ fn = "to_int" /\ arg_val = StrV(<<"-", "$", ".", "7">>) /\ ret = IntV(0)

----------------------------------------------------------------------------
(* C10 *)

\* the places, among the three spellings, of the columns that are there with a
\* value that is not empty
Filled(row, spellings) ==
    {k \in DOMAIN spellings : ~IsEmptyCell(Get(row, spellings[k]))}

\* the id is attached exactly when a spelling is filled, and is then the
\* trimmed text of the first filled one
IdFromFirstFilled(row, props, spellings, id) ==
    /\ (id \in DOMAIN props) <=> (Filled(row, spellings) # {})
    /\ Filled(row, spellings) # {} =>
          \E k \in Filled(row, spellings) :
              /\ \A j \in Filled(row, spellings) : k <= j
              /\ id \in DOMAIN props
              /\ props[id] = StrV(Strip(Get(row, spellings[k]).s))

\* C10: _event_id is attached if and only if one of "Event #", "Event#", "Event"
\* is present with a non-empty value, and is then the trimmed text of the first
\* such column; the same for _expedition_id over "Expedition #", "Expedition#",
\* "Expedition"; for every cell content, cells of whitespace only included.
C10_IdsFromFirstNonEmpty ==
    (fn = "feature" /\ ret # Pending) =>
        /\ IdFromFirstFilled(RowDict(arg_names, arg_cells), ret.properties,
                             <<"Event #", "Event#", "Event">>, "_event_id")
        /\ IdFromFirstFilled(RowDict(arg_names, arg_cells), ret.properties,
                             <<"Expedition #", "Expedition#", "Expedition">>,
                             "_expedition_id")

====
